---- MODULE Spec2Model ----
(***************************************************************************)
(* The two early-boot allocators of the ArceOS tree:                       *)
(*   EarlyAllocator   (modules/bump_allocator/src/lib.rs)                  *)
(*   LabByteAllocator (labs/lab_allocator/src/lib.rs)                      *)
(* usize is scaled down to WordBits bits; every +, -, * of the source is   *)
(* done in that width.  A build with overflow checks (the debug profile)   *)
(* panics where the arithmetic leaves the word, a build without them (the  *)
(* release profile) wraps.                                                 *)
(***************************************************************************)
EXTENDS Integers, Sequences, FiniteSets, TLC

\* ---------------------------------------------------------------- bounds
RangePages == 2        \* pages in the range given to init
MaxSize == 1           \* largest small Layout size requested
MaxCount == 2          \* cap on EarlyAllocator.count
MaxPages == 3          \* largest num_pages requested
MaxEntries == 2        \* cap on the number of entries of LabByteAllocator.inner
NumThreads == 2        \* threads calling create_node on one directory
MaxRegions == 2        \* cap on the regions alloc_pages returns to a caller with a view

\* ------------------------------------------------------ program constants
PAGE_SIZE == 2         \* the const generic PAGE_SIZE, scaled down
WordBits == 4          \* usize::BITS, scaled down
RangeSize == RangePages * PAGE_SIZE

\* ------------------------------------------------------ machine words
USIZE == 2 ^ WordBits
USIZE_MAX == USIZE - 1
ISIZE_MAX == 2 ^ (WordBits - 1) - 1

wrapping_add(a, b) == (a + b) % USIZE
wrapping_sub(a, b) == (a - b + USIZE) % USIZE
wrapping_mul(a, b) == (a * b) % USIZE

RECURSIVE BitAndN(_, _, _)
BitAndN(x, y, n) ==
    IF n = 0 THEN 0
    ELSE (x % 2) * (y % 2) + 2 * BitAndN(x \div 2, y \div 2, n - 1)

\* x & y on words
BitAnd(x, y) == BitAndN(x, y, WordBits)
\* !x on words
BitNot(x) == USIZE_MAX - x

Max(a, b) == IF a >= b THEN a ELSE b
SetMin(S) == CHOOSE x \in S : \A y \in S : x <= y

\* ------------------------------------------------------ inputs
\* core::alloc::Layout: align is a power of two and size, rounded up to
\* align, does not exceed isize::MAX.
PowersOfTwo == { 2 ^ k : k \in 0 .. (WordBits - 1) }
Sizes == (0 .. MaxSize) \cup { RangeSize, RangeSize + 1 }
Layouts == { l \in [size : Sizes, align : PowersOfTwo] :
                l.size + (l.align - 1) <= ISIZE_MAX }
\* the managed range sits at the bottom of the address space (physical
\* addresses) or near its top (kernel virtual addresses)
HighStart == USIZE - RangeSize - PAGE_SIZE
Ranges == { <<0, RangeSize>>, <<HighStart, RangeSize>> }
\* a range of more than half of the address space: used + size can pass
\* usize::MAX on it
BigSize == 2 ^ (WordBits - 1) + RangeSize
BigRanges == { <<0, BigSize>> }

Failures == { "NoMemory", "NotAllocated" }

VARIABLES
    which,            \* the allocator the boot path instantiated
    overflow_checks,  \* TRUE: arithmetic overflow panics; FALSE: it wraps
    ready,            \* FALSE before init, TRUE after
    ea,               \* EarlyAllocator { start, end, b_pos, p_pos, count }
    lab,              \* LabByteAllocator { start, stop, inner, used }
    last,             \* the last call: operation, arguments, result
    memory,           \* the ranges the platform may hand to init
    track,            \* whether the caller's view is recorded in live
    live,             \* the caller's view: the allocations alloc returned
                      \* and dealloc has not been given back, each with the
                      \* address and the Layout of its alloc
    view,             \* the caller's view, kept while every dealloc gave
                      \* back one outstanding allocation (paired): how many
                      \* byte allocations of the bump allocator are
                      \* outstanding, how many regions alloc_pages returned
                      \* (pages), and one region the caller watches, an
                      \* outstanding byte allocation or a region that
                      \* alloc_pages returned
    dir               \* a DirNode of the RAM filesystem and the threads that
                      \* call create_node on it: children, and per thread
                      \* the position in create_node (pc), its arguments
                      \* (name, ty) and the result of its latest call (res)

vars == << which, overflow_checks, ready, ea, lab, last, memory, track, live, view, dir >>

\* size and align hold the two arguments of the call: (size, align) of alloc,
\* (num_pages, align_pow2) of alloc_pages, (size, 1) of init; addr holds the
\* returned address, or the address argument of init and dealloc; paired
\* tells of a dealloc that its address and Layout were those of an
\* allocation of live
NoCall == [op |-> "new", res |-> "Ok", addr |-> 0, size |-> 0, align |-> 1,
           paired |-> FALSE]
Call(op, res, addr, size, align) ==
    [op |-> op, res |-> res, addr |-> addr, size |-> size, align |-> align,
     paired |-> FALSE]
Allocation(addr, size, align) == [addr |-> addr, size |-> size, align |-> align]
Region(kind, addr, size) == [kind |-> kind, addr |-> addr, size |-> size]
NoRegion == Region("none", 0, 0)
NoView == [paired |-> TRUE, outstanding |-> 0, pages |-> 0, watched |-> NoRegion]
\* the view after a dealloc that gave back no outstanding allocation
Unpaired == [paired |-> FALSE, outstanding |-> 0, pages |-> 0, watched |-> NoRegion]
\* the view once the watched allocation was given back: none is watched again
Watched == Region("done", 0, 0)

\* ====================================================== EarlyAllocator
EarlyAllocator_new ==
    [start |-> 0, end |-> 0, b_pos |-> 0, p_pos |-> 0, count |-> 0]

\* align_up without the mask: the cursor is used as it is
align_up_unmasked(pos, align) == pos

\* (pos + align - 1) & !(align - 1)
align_up(pos, align) ==
    BitAnd(wrapping_sub(wrapping_add(pos, align), 1), BitNot(wrapping_sub(align, 1)))

\* pos & !(align - 1)
align_down(pos, align) == BitAnd(pos, BitNot(wrapping_sub(align, 1)))

\* the arithmetic of align_up(pos, align) + size leaves the word
align_up_overflows(pos, align, size) ==
    \/ pos + align > USIZE_MAX
    \/ align_up(pos, align) + size > USIZE_MAX

can_alloc_bytes(self, size, align) ==
    LET aligned_pos == align_up(self.b_pos, align)
    IN  wrapping_add(aligned_pos, size) <= self.p_pos

can_alloc_pages(self, num_pages, align_pow2) ==
    LET size == wrapping_mul(num_pages, PAGE_SIZE)
        aligned_pos == align_down(wrapping_sub(self.p_pos, size), align_pow2)
    IN  aligned_pos >= self.b_pos

\* the arithmetic of alloc_pages leaves the word
alloc_pages_overflows(self, num_pages) ==
    \/ num_pages * PAGE_SIZE > USIZE_MAX
    \/ wrapping_mul(num_pages, PAGE_SIZE) > self.p_pos

EarlyAllocator_init_b_pos_at_end(self, start, size) ==
    [start |-> start, end |-> start + size,
     b_pos |-> start + size, p_pos |-> start + size, count |-> 0]
EarlyAllocator_init(self, start, size) ==
    [start |-> start, end |-> start + size, b_pos |-> start,
     p_pos |-> start + size, count |-> 0]

\* alloc that counts the allocation before it checks the room
EarlyAllocator_alloc_counts_first(self, size, align, checks) ==
    LET counted == [self EXCEPT !.count = self.count + 1]
        aligned_pos == align_up(self.b_pos, align)
    IN  IF checks /\ align_up_overflows(self.b_pos, align, size)
        THEN [res |-> "Panic", addr |-> 0, self |-> self]
        ELSE IF ~ can_alloc_bytes(self, size, align)
        THEN [res |-> "NoMemory", addr |-> 0, self |-> counted]
        ELSE [res |-> "Ok", addr |-> aligned_pos,
              self |-> [counted EXCEPT !.b_pos = wrapping_add(aligned_pos, size)]]

\* result of ByteAllocator::alloc: the outcome, the address, the new state
EarlyAllocator_alloc(self, size, align, checks) ==
    IF checks /\ align_up_overflows(self.b_pos, align, size)
    THEN [res |-> "Panic", addr |-> 0, self |-> self]
    ELSE IF ~ can_alloc_bytes(self, size, align)
    THEN [res |-> "NoMemory", addr |-> 0, self |-> self]
    ELSE LET aligned_pos == align_up(self.b_pos, align)
         IN  [res |-> "Ok", addr |-> aligned_pos,
              self |-> [self EXCEPT !.b_pos = wrapping_add(aligned_pos, size),
                                    !.count = self.count + 1]]

\* dealloc that resets the byte cursor on every call
EarlyAllocator_dealloc_always_resets(self, pos, layout) ==
    [self EXCEPT !.count = IF self.count = 0 THEN 0 ELSE self.count - 1,
                 !.b_pos = self.start]

\* dealloc(&mut self, pos, layout): neither argument is read
EarlyAllocator_dealloc(self, pos, layout) ==
    LET count == IF self.count = 0 THEN 0 ELSE self.count - 1
    IN  [self EXCEPT !.count = count,
                     !.b_pos = IF count = 0 THEN self.start ELSE self.b_pos]

\* add_memory(&mut self, _start, _size) is todo!(): it panics
EarlyAllocator_add_memory_extends(self, start, size) ==
    [res |-> "Ok", self |-> [self EXCEPT !.end = wrapping_add(self.end, size)]]
EarlyAllocator_add_memory(self, start, size) ==
    [res |-> "Panic", self |-> self]

\* dealloc_pages(&mut self, _pos, _num_pages) is todo!(): it panics
EarlyAllocator_dealloc_pages(self, pos, num_pages) ==
    [res |-> "Panic", self |-> self]

EarlyAllocator_total_bytes(self) == wrapping_sub(self.end, self.start)
EarlyAllocator_used_bytes(self) == wrapping_sub(self.b_pos, self.start)
EarlyAllocator_available_bytes(self) == wrapping_sub(self.p_pos, self.b_pos)

EarlyAllocator_alloc_pages_counts(self, num_pages, align_pow2, checks) ==
    LET align == Max(align_pow2, PAGE_SIZE)
        size == wrapping_mul(num_pages, PAGE_SIZE)
    IN  IF checks /\ alloc_pages_overflows(self, num_pages)
        THEN [res |-> "Panic", addr |-> 0, self |-> self]
        ELSE IF ~ can_alloc_pages(self, num_pages, align)
        THEN [res |-> "NoMemory", addr |-> 0, self |-> self]
        ELSE LET aligned_pos == align_down(wrapping_sub(self.p_pos, size), align)
             IN  [res |-> "Ok", addr |-> aligned_pos,
                  self |-> [self EXCEPT !.p_pos = aligned_pos,
                                      !.count = self.count + 1]]
EarlyAllocator_alloc_pages(self, num_pages, align_pow2, checks) ==
    LET align == Max(align_pow2, PAGE_SIZE)
        size == wrapping_mul(num_pages, PAGE_SIZE)
    IN  IF checks /\ alloc_pages_overflows(self, num_pages)
        THEN [res |-> "Panic", addr |-> 0, self |-> self]
        ELSE IF ~ can_alloc_pages(self, num_pages, align)
        THEN [res |-> "NoMemory", addr |-> 0, self |-> self]
        ELSE LET aligned_pos == align_down(wrapping_sub(self.p_pos, size), align)
             IN  [res |-> "Ok", addr |-> aligned_pos,
                  self |-> [self EXCEPT !.p_pos = aligned_pos]]

EarlyAllocator_total_pages(self) ==
    wrapping_sub(self.end, self.start) \div PAGE_SIZE
EarlyAllocator_used_pages(self) ==
    wrapping_sub(self.end, self.p_pos) \div PAGE_SIZE
EarlyAllocator_available_pages(self) ==
    wrapping_sub(self.p_pos, self.b_pos) \div PAGE_SIZE

\* ====================================================== LabByteAllocator
EmptyMap == [k \in {} |-> 0]

LabByteAllocator_new ==
    [start |-> 0, stop |-> 0, inner |-> EmptyMap, used |-> 0]

LabByteAllocator_init(self, start, size) ==
    [self EXCEPT !.start = start, !.stop = start + size]

\* BTreeMap::insert: a new key is added, an existing key gets the new value
BTreeMap_insert(map, key, value) ==
    [k \in (DOMAIN map) \cup {key} |-> IF k = key THEN value ELSE map[k]]

\* BTreeMap::remove
BTreeMap_remove(map, key) ==
    [k \in (DOMAIN map) \ {key} |-> map[k]]

\* self.inner.insert(aligned_start, size); self.used += size; return Ok
alloc_commit(self, aligned_start, size) ==
    [res |-> "Ok", addr |-> aligned_start,
     self |-> [self EXCEPT !.inner = BTreeMap_insert(self.inner, aligned_start, size),
                           !.used = wrapping_add(self.used, size)]]

alloc_panic(self) == [res |-> "Panic", addr |-> 0, self |-> self]

\* the trailing gap [prev, stop), after the loop
trailing_gap(self, prev, size, align, checks) ==
    LET gap_start == prev
        gap_end == self.stop
        aligned_start == align_up(gap_start, align)
        end == wrapping_add(aligned_start, size)
    IN  IF gap_end > gap_start
        THEN IF checks /\ align_up_overflows(gap_start, align, size)
             THEN alloc_panic(self)
             ELSE IF end <= gap_end
             THEN alloc_commit(self, aligned_start, size)
             ELSE [res |-> "NotAllocated", addr |-> 0, self |-> self]
        ELSE [res |-> "NotAllocated", addr |-> 0, self |-> self]

\* for (&ptr, &len) in self.inner.iter(): keys holds the entries not yet
\* visited, which the iterator yields in ascending order
RECURSIVE gap_scan(_, _, _, _, _, _)
gap_scan(self, keys, prev, size, align, checks) ==
    IF keys = {}
    THEN trailing_gap(self, prev, size, align, checks)
    ELSE LET ptr == SetMin(keys)
             len == self.inner[ptr]
             gap_start == prev
             gap_end == ptr
             aligned_start == align_up(gap_start, align)
             end == wrapping_add(aligned_start, size)
         IN  IF checks /\ (gap_end < gap_start
                           \/ align_up_overflows(gap_start, align, size))
             THEN alloc_panic(self)
             ELSE IF end <= gap_end
             THEN alloc_commit(self, aligned_start, size)
             ELSE IF checks /\ ptr + len > USIZE_MAX
             THEN alloc_panic(self)
             ELSE gap_scan(self, keys \ {ptr}, wrapping_add(ptr, len),
                           size, align, checks)

LabByteAllocator_alloc(self, size, align, checks) ==
    IF checks /\ self.used + size > USIZE_MAX
    THEN alloc_panic(self)
    ELSE IF wrapping_add(self.used, size) > wrapping_sub(self.stop, self.start)
    THEN [res |-> "NoMemory", addr |-> 0, self |-> self]
    ELSE gap_scan(self, DOMAIN self.inner, self.start, size, align, checks)

\* dealloc(&mut self, pos, layout): layout is not read
LabByteAllocator_dealloc_by_layout(self, ptr_addr, layout) ==
    IF ptr_addr \in DOMAIN self.inner
    THEN [self EXCEPT !.inner = BTreeMap_remove(self.inner, ptr_addr),
                      !.used = wrapping_sub(self.used, layout.size)]
    ELSE self
LabByteAllocator_dealloc(self, ptr_addr, layout) ==
    IF ptr_addr \in DOMAIN self.inner
    THEN [self EXCEPT !.inner = BTreeMap_remove(self.inner, ptr_addr),
                      !.used = wrapping_sub(self.used, self.inner[ptr_addr])]
    ELSE self

\* add_memory(&mut self, _start, _size) is unimplemented!(): it panics
LabByteAllocator_add_memory(self, start, size) ==
    [res |-> "Panic", self |-> self]

LabByteAllocator_total_bytes(self) == wrapping_sub(self.stop, self.start)
LabByteAllocator_used_bytes(self) == self.used
LabByteAllocator_available_bytes(self) ==
    wrapping_sub(LabByteAllocator_total_bytes(self), self.used)

\* ====================================================== state machine
\* ================================================================ DirNode
Threads == 1 .. NumThreads
Names == {"a", "b"}
\* VfsNodeType: File and Dir are created, every other type is Unsupported
NodeTypes == {"File", "Dir", "CharDevice"}
Node(by, ty) == [by |-> by, ty |-> ty]

\* DirNode::new: no children; no thread is inside create_node
DirNode_new ==
    [children |-> [n \in {} |-> Node(0, "File")],
     pc |-> [t \in Threads |-> "idle"],
     name |-> [t \in Threads |-> "a"],
     ty |-> [t \in Threads |-> "File"],
     res |-> [t \in Threads |-> "none"]]

\* exist: children.read().contains_key(name)
exist(children, name) == name \in DOMAIN children

Constructed ==
    /\ overflow_checks \in BOOLEAN
    /\ ready = FALSE
    /\ ea = EarlyAllocator_new
    /\ lab = LabByteAllocator_new
    /\ last = NoCall
    /\ live = {}
    /\ view = NoView
    /\ dir = DirNode_new

Init ==
    /\ which \in {"EarlyAllocator", "LabByteAllocator"}
    /\ memory = Ranges
    /\ track = FALSE
    /\ Constructed

Running == last.res # "Panic"

EarlyInit ==
    /\ which = "EarlyAllocator" /\ ~ ready
    /\ \E r \in memory :
          /\ ea' = EarlyAllocator_init(ea, r[1], r[2])
          /\ last' = Call("init", "Ok", r[1], r[2], 1)
    /\ ready' = TRUE
    /\ UNCHANGED << which, overflow_checks, memory, lab, track, live, view, dir >>

\* whether the caller begins to watch the region a call returns: it watches
\* one region of the run, and never an empty one, which overlaps nothing
Watch ==
    IF track /\ view.paired /\ view.watched = NoRegion THEN BOOLEAN ELSE {FALSE}

EarlyAlloc ==
    /\ which = "EarlyAllocator" /\ ready /\ Running
    /\ ea.count < MaxCount
    /\ track => view.outstanding < MaxCount
    /\ \E l \in Layouts, w \in Watch :
          LET r == EarlyAllocator_alloc(ea, l.size, l.align, overflow_checks)
          IN  /\ ea' = r.self
              /\ last' = Call("alloc", r.res, r.addr, l.size, l.align)
              /\ view' = IF track /\ view.paired /\ r.res = "Ok"
                         THEN [view EXCEPT
                                 !.outstanding = @ + 1,
                                 !.watched = IF w /\ l.size > 0
                                             THEN Region("bytes", r.addr, l.size)
                                             ELSE @]
                         ELSE view
    /\ UNCHANGED << which, overflow_checks, memory, ready, lab, track, live, dir >>

\* the calls of dealloc of the bump allocator: the address and Layout, and
\* which outstanding allocation they give back ("watched", "other" or "none").
\* When the caller's view is recorded: the watched byte allocation; another
\* outstanding one, whose address the view does not keep (b_pos stands for
\* it: dealloc reads no argument); and start, for no allocation at all.
\* Otherwise: start and b_pos with every Layout.
EarlyDeallocArgs ==
    IF track
    THEN { [gives |-> "watched", pos |-> view.watched.addr,
            layout |-> Allocation(view.watched.addr, view.watched.size, 1)] :
             k \in { x \in {1} : view.watched.kind = "bytes" } }
         \cup
         { [gives |-> "other", pos |-> ea.b_pos,
            layout |-> Allocation(ea.b_pos, 0, 1)] :
             k \in { x \in {1} : view.outstanding >
                         (IF view.watched.kind = "bytes" THEN 1 ELSE 0) } }
         \cup
         { [gives |-> "none", pos |-> ea.start,
            layout |-> Allocation(ea.start, 0, 1)] }
    ELSE { [gives |-> "none", pos |-> pos, layout |-> l] :
             pos \in {ea.start, ea.b_pos}, l \in Layouts }

EarlyDealloc ==
    /\ which = "EarlyAllocator" /\ ready /\ Running
    /\ \E d \in EarlyDeallocArgs :
          /\ ea' = EarlyAllocator_dealloc(ea, d.pos, d.layout)
          /\ last' = [Call("dealloc", "Ok", d.pos, 0, 1)
                         EXCEPT !.paired = (d.gives # "none")]
          /\ view' = IF ~ track THEN view
                     ELSE IF d.gives = "none" THEN Unpaired
                     ELSE [view EXCEPT
                             !.outstanding = @ - 1,
                             !.watched = IF d.gives = "watched" THEN Watched ELSE @]
    /\ UNCHANGED << which, overflow_checks, memory, ready, lab, track, live, dir >>

EarlyAllocPages ==
    /\ which = "EarlyAllocator" /\ ready /\ Running
    /\ track => view.pages < MaxRegions
    /\ \E num_pages \in 0 .. MaxPages, align_pow2 \in PowersOfTwo, w \in Watch :
          LET r == EarlyAllocator_alloc_pages(ea, num_pages, align_pow2, overflow_checks)
          IN  /\ ea' = r.self
              /\ last' = Call("alloc_pages", r.res, r.addr, num_pages, align_pow2)
              /\ view' = IF track /\ view.paired /\ r.res = "Ok"
                         THEN [view EXCEPT
                                 !.pages = @ + 1,
                                 !.watched = IF w /\ num_pages > 0
                                             THEN Region("pages", r.addr,
                                                         num_pages * PAGE_SIZE)
                                             ELSE @]
                         ELSE view
    /\ UNCHANGED << which, overflow_checks, memory, ready, lab, track, live, dir >>

EarlyAddMemory ==
    /\ which = "EarlyAllocator" /\ ready /\ Running
    /\ \E r \in Ranges :
          LET a == EarlyAllocator_add_memory(ea, r[1], r[2])
          IN  /\ ea' = a.self
              /\ last' = Call("add_memory", a.res, r[1], r[2], 1)
    /\ UNCHANGED << which, overflow_checks, memory, ready, lab, track, live, view, dir >>

EarlyDeallocPages ==
    /\ which = "EarlyAllocator" /\ ready /\ Running
    /\ \E num_pages \in 0 .. MaxPages :
          LET d == EarlyAllocator_dealloc_pages(ea, ea.p_pos, num_pages)
          IN  /\ ea' = d.self
              /\ last' = Call("dealloc_pages", d.res, ea.p_pos, num_pages, 1)
    /\ UNCHANGED << which, overflow_checks, memory, ready, lab, track, live, view, dir >>

NextEarly ==
    \/ EarlyInit
    \/ EarlyAlloc
    \/ EarlyDealloc
    \/ EarlyAllocPages
    \/ EarlyAddMemory
    \/ EarlyDeallocPages

LabInit ==
    /\ which = "LabByteAllocator" /\ ~ ready
    /\ \E r \in memory :
          /\ lab' = LabByteAllocator_init(lab, r[1], r[2])
          /\ last' = Call("init", "Ok", r[1], r[2], 1)
    /\ ready' = TRUE
    /\ UNCHANGED << which, overflow_checks, memory, ea, track, live, view, dir >>

LabAlloc ==
    /\ which = "LabByteAllocator" /\ ready /\ Running
    /\ Cardinality(DOMAIN lab.inner) < MaxEntries
    /\ track => Cardinality(live) < MaxEntries
    /\ \E l \in Layouts :
          LET r == LabByteAllocator_alloc(lab, l.size, l.align, overflow_checks)
          IN  /\ lab' = r.self
              /\ last' = Call("alloc", r.res, r.addr, l.size, l.align)
              /\ live' = IF track /\ r.res = "Ok"
                         THEN live \cup {Allocation(r.addr, l.size, l.align)}
                         ELSE live
    /\ UNCHANGED << which, overflow_checks, memory, ready, ea, track, view, dir >>

\* the (address, Layout) pairs dealloc is called with.  When the caller's
\* view is recorded: those of the allocations of live, and the end of the
\* range, which is the address of no allocation unless one wrapped onto it.
\* Otherwise: the keys of the map and the two ends of the range, with a
\* Layout that dealloc does not read.
DeallocArgs ==
    IF track
    THEN live \cup { Allocation(lab.stop, 0, 1) }
    ELSE { Allocation(pos, 0, 1) :
             pos \in (DOMAIN lab.inner) \cup {lab.start, lab.stop} }

LabDealloc ==
    /\ which = "LabByteAllocator" /\ ready /\ Running
    /\ \E d \in DeallocArgs :
          /\ lab' = LabByteAllocator_dealloc(lab, d.addr, d)
          /\ last' = [Call("dealloc", "Ok", d.addr, d.size, d.align)
                         EXCEPT !.paired = (d \in live)]
          /\ live' = live \ {d}
          /\ view' = IF track /\ d \notin live
                     THEN [view EXCEPT !.paired = FALSE]
                     ELSE view
    /\ UNCHANGED << which, overflow_checks, memory, ready, ea, track, dir >>

LabAddMemory ==
    /\ which = "LabByteAllocator" /\ ready /\ Running
    /\ \E r \in Ranges :
          LET a == LabByteAllocator_add_memory(lab, r[1], r[2])
          IN  /\ lab' = a.self
              /\ last' = Call("add_memory", a.res, r[1], r[2], 1)
    /\ UNCHANGED << which, overflow_checks, memory, ready, ea, track, live, view, dir >>

NextLab ==
    \/ LabInit
    \/ LabAlloc
    \/ LabDealloc
    \/ LabAddMemory

Next ==
    \/ NextEarly
    \/ NextLab

Spec == Init /\ [][Next]_vars

\* ------------------------------------------------- DirNode::create_node
allocators == << overflow_checks, ready, ea, lab, last, memory, track, live, view >>

\* thread t enters create_node(name, ty): the existence check under the read
\* lock, and the construction of the node, which touches nothing shared
CreateCheck(t) ==
    /\ which = "DirNode" /\ dir.pc[t] = "idle"
    /\ \E name \in Names, ty \in NodeTypes :
          dir' = IF exist(dir.children, name)
                 THEN [dir EXCEPT !.name[t] = name, !.ty[t] = ty,
                                  !.res[t] = "AlreadyExists"]
                 ELSE IF ty \notin {"File", "Dir"}
                 THEN [dir EXCEPT !.name[t] = name, !.ty[t] = ty,
                                  !.res[t] = "Unsupported"]
                 ELSE [dir EXCEPT !.name[t] = name, !.ty[t] = ty,
                                  !.res[t] = "none", !.pc[t] = "insert"]
    /\ UNCHANGED << which, allocators >>

\* thread t takes the write lock, inserts its node and returns Ok
CreateInsert(t) ==
    /\ which = "DirNode" /\ dir.pc[t] = "insert"
    /\ dir' = [dir EXCEPT
                 !.children = BTreeMap_insert(@, dir.name[t], Node(t, dir.ty[t])),
                 !.res[t] = "Ok", !.pc[t] = "idle"]
    /\ UNCHANGED << which, allocators >>

NextDir ==
    \/ \E t \in Threads : CreateCheck(t)
    \/ \E t \in Threads : CreateInsert(t)

InitDir == which = "DirNode" /\ memory = Ranges /\ track = FALSE /\ Constructed
SpecDir == InitDir /\ [][NextDir]_vars
InitEarly == Init /\ which = "EarlyAllocator"
InitLab == Init /\ which = "LabByteAllocator"
SpecEarly == InitEarly /\ [][NextEarly]_vars
SpecLab == InitLab /\ [][NextLab]_vars

\* the free-list allocator with the caller's view recorded
InitLabLive ==
    which = "LabByteAllocator" /\ memory = Ranges /\ track = TRUE /\ Constructed
SpecLabLive == InitLabLive /\ [][NextLab]_vars

\* the bump allocator with the caller's view recorded
InitEarlyLive ==
    /\ which = "EarlyAllocator" /\ track = TRUE /\ Constructed
    /\ memory = { <<0, RangeSize>> }
SpecEarlyLive == InitEarlyLive /\ [][NextEarly]_vars

\* the free-list allocator on a range of more than half of the address space
InitLabBig ==
    which = "LabByteAllocator" /\ memory = BigRanges /\ track = FALSE /\ Constructed
SpecLabBig == InitLabBig /\ [][NextLab]_vars

\* ====================================================== properties
IsEarly == which = "EarlyAllocator" /\ ready
IsLab == which = "LabByteAllocator" /\ ready

\* [a1, a1 + s1) and [a2, a2 + s2) share no address
Disjoint(a1, s1, a2, s2) ==
    s1 = 0 \/ s2 = 0 \/ a1 + s1 <= a2 \/ a2 + s2 <= a1

RECURSIVE SumLens(_, _)
SumLens(map, keys) ==
    IF keys = {} THEN 0
    ELSE LET k == SetMin(keys) IN map[k] + SumLens(map, keys \ {k})

\* C1: after init and any sequence of alloc, dealloc and alloc_pages calls,
\* start <= b_pos <= p_pos <= end holds in every reachable state.
C1_CursorOrder ==
    IsEarly => /\ ea.start <= ea.b_pos
               /\ ea.b_pos <= ea.p_pos
               /\ ea.p_pos <= ea.end

\* C2: at every point the entries of the allocation map are pairwise
\* non-overlapping intervals [addr, addr + len), each inside [start, end).
C2_EntriesDisjointInRange ==
    IsLab => \A a \in DOMAIN lab.inner :
                /\ lab.inner[a] > 0 => (lab.start <= a /\ a + lab.inner[a] <= lab.stop)
                /\ \A b \in (DOMAIN lab.inner) \ {a} :
                      Disjoint(a, lab.inner[a], b, lab.inner[b])

\* C3: used_bytes() equals the sum of the lengths of all entries currently
\* in the allocation map, for requests of any size including 0.
C3_UsedIsSumOfLens ==
    IsLab => LabByteAllocator_used_bytes(lab) = SumLens(lab.inner, DOMAIN lab.inner)

\* C4: every address returned by a successful alloc(size, align) of either
\* allocator is a multiple of align, and every address returned by a
\* successful alloc_pages(count, align_pow2) is a multiple of
\* max(align_pow2, PAGE_SIZE).
C4_Aligned ==
    /\ (last.op = "alloc" /\ last.res = "Ok") => last.addr % last.align = 0
    /\ (last.op = "alloc_pages" /\ last.res = "Ok")
          => last.addr % Max(last.align, PAGE_SIZE) = 0

\* a successful alloc whose cursor had to be rounded up to reach the address
C4_Witness ==
    /\ IsEarly /\ last.op = "alloc" /\ last.res = "Ok"
    /\ last.align = 2 /\ last.size = 1
    /\ last.addr = ea.start + 2 /\ ea.count = 2

\* C5: a failed alloc or alloc_pages (NoMemory, NotAllocated) changes none
\* of b_pos, p_pos, count, and neither the allocation map nor used.
C5_FailedAllocKeepsState ==
    [][ (last'.op \in {"alloc", "alloc_pages"} /\ last'.res \in Failures)
            => (ea' = ea /\ lab' = lab) ]_vars

\* a search that failed (NotAllocated) on a map that holds entries
C5_Witness ==
    /\ IsLab /\ last.op = "alloc" /\ last.res = "NotAllocated"
    /\ lab.used > 0 /\ DOMAIN lab.inner # {}

\* the least multiple of k that is >= g, over the integers
RoundUp(g, k) == ((g + k - 1) \div k) * k

\* the gaps the scan of alloc visits, in ascending address order: between
\* consecutive entries, beginning at start, then the trailing gap up to stop
RECURSIVE GapsFrom(_, _, _)
GapsFrom(self, keys, prev) ==
    IF keys = {} THEN << <<prev, self.stop>> >>
    ELSE LET k == SetMin(keys)
         IN  << <<prev, k>> >> \o GapsFrom(self, keys \ {k}, k + self.inner[k])
Gaps(self) == GapsFrom(self, DOMAIN self.inner, self.start)
Fits(gap, size, align) == RoundUp(gap[1], align) + size <= gap[2]

\* C6: a successful alloc(size, align) of the free-list allocator returns
\* round_up(g, align) for the first gap, in ascending address order, in which
\* round_up(g, align) + size does not exceed the gap's end.
C6_FirstFit ==
    [][ (IsLab /\ last'.op = "alloc" /\ last'.res = "Ok")
            => LET G == Gaps(lab)
               IN  \E i \in 1 .. Len(G) :
                      /\ Fits(G[i], last'.size, last'.align)
                      /\ \A j \in 1 .. (i - 1) : ~ Fits(G[j], last'.size, last'.align)
                      /\ last'.addr = RoundUp(G[i][1], last'.align) ]_vars

\* C7: a dealloc that brings count to zero leaves used_bytes() = 0 and
\* available_bytes() = p_pos - start (the difference taken in usize, as
\* the accounting takes it); a dealloc with count >= 2 before it leaves
\* b_pos and used_bytes() unchanged and lowers count by one.
C7_BulkReset ==
    [][ (IsEarly /\ last'.op = "dealloc")
            => /\ ea'.count = 0
                    => /\ EarlyAllocator_used_bytes(ea') = 0
                       /\ EarlyAllocator_available_bytes(ea')
                              = wrapping_sub(ea'.p_pos, ea'.start)
               /\ ea.count >= 2
                    => /\ ea'.b_pos = ea.b_pos
                       /\ EarlyAllocator_used_bytes(ea') = EarlyAllocator_used_bytes(ea)
                       /\ ea'.count = ea.count - 1 ]_vars

\* the last of two byte allocations was freed after a page was taken: the
\* byte cursor is back at start and the page cursor is where it was
C7_Witness ==
    /\ IsEarly /\ last.op = "dealloc" /\ ea.count = 0
    /\ ea.b_pos = ea.start /\ ea.p_pos = ea.start + PAGE_SIZE
    /\ ea.end = ea.start + RangeSize

\* C8: of two successful allocs of the bump allocator with no call between
\* them, the second returns the greater address, the two regions do not
\* overlap, and the returned region does not extend past p_pos.
C8_BytesIncreasing ==
    [][ (IsEarly /\ last'.op = "alloc" /\ last'.res = "Ok")
            => /\ last'.addr + last'.size <= ea'.p_pos
               /\ (last.op = "alloc" /\ last.res = "Ok")
                    => /\ last'.addr > last.addr
                       /\ Disjoint(last.addr, last.size, last'.addr, last'.size) ]_vars

\* C9: a successful alloc_pages returns a region inside [start, end) that
\* does not begin below b_pos; of two successful alloc_pages with no call
\* between them, the second returns the smaller address and the two regions
\* do not overlap.
C9_PagesDecreasing ==
    [][ (IsEarly /\ last'.op = "alloc_pages" /\ last'.res = "Ok")
            => /\ ea'.start <= last'.addr
               /\ last'.addr + last'.size * PAGE_SIZE <= ea'.end
               /\ last'.addr >= ea'.b_pos
               /\ (last.op = "alloc_pages" /\ last.res = "Ok")
                    => /\ last'.addr < last.addr
                       /\ Disjoint(last.addr, last.size * PAGE_SIZE,
                                   last'.addr, last'.size * PAGE_SIZE) ]_vars

\* used_bytes() and available_bytes() of the instantiated allocator
used_bytes(e, l) ==
    IF which = "EarlyAllocator" THEN EarlyAllocator_used_bytes(e)
                                ELSE LabByteAllocator_used_bytes(l)
available_bytes(e, l) ==
    IF which = "EarlyAllocator" THEN EarlyAllocator_available_bytes(e)
                                ELSE LabByteAllocator_available_bytes(l)

\* C10: in any reachable state, alloc(size, align) with size >
\* available_bytes() returns a failure, and used_bytes() afterwards equals
\* its value before the call.
C10_Exhaustion ==
    [][ (ready /\ last'.op = "alloc" /\ last'.size > available_bytes(ea, lab))
            => /\ last'.res \in Failures
               /\ used_bytes(ea', lab') = used_bytes(ea, lab) ]_vars

\* C11: after dealloc gave back a live allocation that alloc had returned at
\* address a for size n and alignment k, the next call alloc(m, k) with
\* 0 < m <= n succeeds and returns an address <= a.
C11_GapReopened ==
    [][ ( /\ IsLab
          /\ last.op = "dealloc" /\ last.paired
          /\ last'.op = "alloc" /\ last'.align = last.align
          /\ 0 < last'.size /\ last'.size <= last.size )
        => ( last'.res = "Ok" /\ last'.addr <= last.addr ) ]_vars

\* round_down over the integers, as the specification writes it
RoundDown(x, k) == (x \div k) * k

\* C12: alloc_pages returns NoMemory and leaves p_pos unchanged whenever
\* round_down(p_pos - num_pages * PAGE_SIZE, max(align, PAGE_SIZE)) < b_pos,
\* the case num_pages * PAGE_SIZE > p_pos included.
C12_PagesNoMemory ==
    [][ ( /\ IsEarly
          /\ last'.op = "alloc_pages"
          /\ RoundDown(ea.p_pos - last'.size * PAGE_SIZE,
                       Max(last'.align, PAGE_SIZE)) < ea.b_pos )
        => ( last'.res = "NoMemory" /\ ea'.p_pos = ea.p_pos ) ]_vars

\* the outcome the gap rule of the specification gives alloc(size, align)
alloc_outcome(self, size, align) ==
    IF self.used + size > self.stop - self.start THEN "NoMemory"
    ELSE IF \A i \in 1 .. Len(Gaps(self)) : ~ Fits(Gaps(self)[i], size, align)
         THEN "NotAllocated"
         ELSE "Ok"

\* C13: alloc of the free-list allocator returns NoMemory exactly when
\* used + size > total_bytes(); otherwise NotAllocated exactly when no gap,
\* the trailing gap included, holds size bytes at an aligned address;
\* otherwise it succeeds.
C13_AllocOutcome ==
    [][ (IsLab /\ last'.op = "alloc")
            => last'.res = alloc_outcome(lab, last'.size, last'.align) ]_vars

\* C14: add_memory, on either allocator, never returns success: every call
\* ends in the panic of the unimplemented operation, and the allocator's
\* state is what it was before the call.
C14_AddMemoryUnsupported ==
    [][ last'.op = "add_memory"
            => (last'.res = "Panic" /\ ea' = ea /\ lab' = lab) ]_vars
C14_Witness ==
    /\ IsEarly /\ last.op = "add_memory" /\ last.res = "Panic"
    /\ ea.b_pos > ea.start

\* C15: in every state of the free-list allocator after init,
\* used_bytes() <= total_bytes(), and used_bytes() + available_bytes() =
\* total_bytes() = stop - start with no underflow in available_bytes().
C15_LabAccounting ==
    IsLab =>
        /\ LabByteAllocator_used_bytes(lab) <= LabByteAllocator_total_bytes(lab)
        /\ LabByteAllocator_total_bytes(lab) = lab.stop - lab.start
        /\ LabByteAllocator_used_bytes(lab) + LabByteAllocator_available_bytes(lab)
              = LabByteAllocator_total_bytes(lab)
        /\ LabByteAllocator_available_bytes(lab)
              = LabByteAllocator_total_bytes(lab) - lab.used

\* C16: alloc(size, align) of the bump allocator succeeds if and only if
\* round_up(b_pos, align) + size <= p_pos; it then returns
\* round_up(b_pos, align), sets b_pos to that address plus size and adds one
\* to count; otherwise it returns NoMemory.  So once p_pos = b_pos every alloc
\* with size > 0 returns NoMemory.
C16_AllocIffFits ==
    [][ (IsEarly /\ last'.op = "alloc")
            => LET aligned_pos == RoundUp(ea.b_pos, last'.align)
               IN  IF aligned_pos + last'.size <= ea.p_pos
                   THEN /\ last'.res = "Ok"
                        /\ last'.addr = aligned_pos
                        /\ ea'.b_pos = aligned_pos + last'.size
                        /\ ea'.count = ea.count + 1
                   ELSE last'.res = "NoMemory" ]_vars

\* C17: on every step after init p_pos does not increase, dealloc_pages never
\* returns normally and gives no page back, and used_pages() does not
\* decrease.
C17_PagesPermanent ==
    [][ IsEarly
            => /\ ea'.p_pos <= ea.p_pos
               /\ last'.op = "dealloc_pages" => (last'.res = "Panic" /\ ea' = ea)
               /\ EarlyAllocator_used_pages(ea') >= EarlyAllocator_used_pages(ea) ]_vars

C19_Frames ==
    [][ IsEarly
            => /\ ea'.start = ea.start /\ ea'.end = ea.end
               /\ last'.op = "alloc" => ea'.p_pos = ea.p_pos
               /\ last'.op = "alloc_pages"
                    => (ea'.b_pos = ea.b_pos /\ ea'.count = ea.count)
               /\ last'.op = "dealloc"
                    => /\ ea'.p_pos = ea.p_pos
                       /\ \A pos \in 0 .. USIZE_MAX, l \in Layouts :
                             LET d == EarlyAllocator_dealloc(ea, pos, l)
                             IN  d.b_pos = ea'.b_pos /\ d.count = ea'.count ]_vars
C19_Witness ==
    /\ IsEarly /\ last.op = "dealloc" /\ last.addr # ea.start
    /\ ea.count = 1 /\ ea.b_pos > ea.start /\ ea.p_pos < ea.end

\* C20: dealloc(address, layout) of the free-list allocator removes exactly
\* the entry keyed by address and lowers used by the length recorded in that
\* entry (the subtraction taken in usize, and without underflow when
\* overflow is checked), whatever layout.size is; every other entry is
\* unchanged; when no entry is keyed by address, the map and used are
\* unchanged.
C20_DeallocExact ==
    [][ (IsLab /\ last'.op = "dealloc")
            => IF last'.addr \in DOMAIN lab.inner
               THEN /\ DOMAIN lab'.inner = (DOMAIN lab.inner) \ {last'.addr}
                    /\ \A a \in DOMAIN lab'.inner : lab'.inner[a] = lab.inner[a]
                    /\ lab'.used = wrapping_sub(lab.used, lab.inner[last'.addr])
                    /\ overflow_checks => lab.used >= lab.inner[last'.addr]
               ELSE lab'.inner = lab.inner /\ lab'.used = lab.used ]_vars
C20_Witness ==
    /\ IsLab /\ last.op = "dealloc"
    /\ last.addr \notin DOMAIN lab.inner
    /\ DOMAIN lab.inner # {} /\ lab.used > 0

\* C21: while every dealloc has given back an allocation that alloc returned
\* and that was still outstanding, no two outstanding allocations of
\* positive size of the free-list allocator overlap.
C21_OutstandingDisjoint ==
    (IsLab /\ track /\ view.paired)
        => \A x \in live, y \in live :
              x # y => Disjoint(x.addr, x.size, y.addr, y.size)

\* C22: while every dealloc has given back exactly one outstanding byte
\* allocation of the bump allocator, count equals the number of outstanding
\* byte allocations, so that dealloc sets b_pos to start only when none is
\* outstanding, and a region that alloc returns overlaps neither a byte
\* allocation still outstanding nor a region that alloc_pages returned.
C22_CallerView ==
    [][ (IsEarly /\ track /\ view'.paired)
            => /\ ea'.count = view'.outstanding
               /\ (last'.op = "dealloc" /\ ea'.b_pos # ea.b_pos)
                    => view'.outstanding = 0
               /\ (last'.op = "alloc" /\ last'.res = "Ok")
                    => Disjoint(last'.addr, last'.size,
                                view.watched.addr, view.watched.size) ]_vars

\* C23: when threads call create_node with the same name on one directory,
\* no two of them return Ok for it, and the node that the successful call
\* inserted is never replaced by another call.
C23_CreateOnce ==
    [][ which = "DirNode"
            => /\ \A n \in DOMAIN dir.children : dir'.children[n] = dir.children[n]
               /\ \A t \in Threads, u \in Threads :
                     ( /\ t # u /\ dir'.name[t] = dir'.name[u]
                       /\ dir'.pc[t] = "idle" /\ dir'.pc[u] = "idle" )
                     => ~ (dir'.res[t] = "Ok" /\ dir'.res[u] = "Ok") ]_vars

====
